---- MODULE Spec2Model ----
(***************************************************************************)
(* A model of molecular_builder/core.py: the bulk crystal builder          *)
(* (create_bulk_crystal), the region carver (carve_geometry), the remote   *)
(* fetcher (fetch_prepared_system) and the solvent packer (pack_water).    *)
(*                                                                         *)
(* Lengths are integers (Angstrom).  Trigonometric values are fixed-point  *)
(* numbers scaled by Milli; products of lengths and trigonometric values   *)
(* are therefore in units of 1/Milli Angstrom.                             *)
(***************************************************************************)
EXTENDS Integers, Sequences, FiniteSets, TLC

VARIABLES crystal,   \* the last create_bulk_crystal call and its outcome
          structs,   \* structure slot -> sequence of atoms (ase.Atoms objects)
          carves,    \* the last carve_geometry call and its outcome
          fs,        \* the files and directories that exist on disk
          cwd,       \* the working directory of the process
          pack,      \* the pack_water call in progress, or its outcome
          cache,     \* the persistent response cache of requests_cache
          fetch      \* the fetch_prepared_system call in progress / outcome

vars == <<crystal, structs, carves, fs, cwd, pack, cache, fetch>>

----------------------------------------------------------------------------
(* Bounds *)

MaxLenSteps == 3      \* requested lengths are LenStep * (1..MaxLenSteps)
MaxAtoms == 3         \* longest structure handed to carve_geometry
MaxNumber == 2        \* largest number of water molecules requested

----------------------------------------------------------------------------
(* Arithmetic helpers *)

Milli == 1000
LenStep == 5

\* floor(p / q) for q > 0, as np.floor on the quotient
FloorDiv(p, q) == IF p >= 0 THEN p \div q ELSE -(((-p) + q - 1) \div q)

\* ceil(p / q) for q > 0, as np.ceil on the quotient
CeilDiv(p, q) == IF p >= 0 THEN (p + q - 1) \div q ELSE -((-p) \div q)

\* integer square root, floor(sqrt(x)) for x >= 0
RECURSIVE ISqrtFrom(_, _, _)
ISqrtFrom(x, lo, hi) ==
    IF lo >= hi THEN lo
    ELSE LET mid == (lo + hi + 1) \div 2
         IN  IF mid * mid <= x THEN ISqrtFrom(x, mid, hi)
                               ELSE ISqrtFrom(x, lo, mid - 1)

ISqrt(x) == ISqrtFrom(x, 0, 46340)

\* np.sin(np.radians(deg)) scaled by Milli, for the angles of the table
SinMilli(deg) ==
    CASE deg = 90  -> 1000
      [] deg = 100 -> 985
      [] deg = 110 -> 940
      [] deg = 120 -> 866

\* cos(deg) scaled by Milli, for the angles of the table
CosMilli(deg) ==
    CASE deg = 90  -> 0
      [] deg = 100 -> -174
      [] deg = 110 -> -342
      [] deg = 120 -> -500

----------------------------------------------------------------------------
(* Crystal table (molecular_builder/crystals.py) *)

crystals ==
    [ halite    |-> [a |-> 6, b |-> 6, c |-> 6,
                     alpha |-> 90, beta |-> 90, gamma |-> 90],
      quartz    |-> [a |-> 5, b |-> 5, c |-> 5,
                     alpha |-> 90, beta |-> 90, gamma |-> 120],
      kaolinite |-> [a |-> 5, b |-> 9, c |-> 7,
                     alpha |-> 100, beta |-> 110, gamma |-> 90] ]

CrystalNames == DOMAIN crystals

\* names a caller may pass: the table's keys and one absent key
Names == CrystalNames \cup {"unobtainium"}

RoundModes == {"up", "down", "round"}

\* values a caller may pass as the round argument
RoundArgs == RoundModes \cup {"nearest"}

Lengths == {LenStep * k : k \in 1..MaxLenSteps}

Sizes == [1..3 -> Lengths]

----------------------------------------------------------------------------
(* create_bulk_crystal *)

Zero3 == <<0, 0, 0>>

ZeroCell == <<Zero3, Zero3, Zero3>>      \* np.zeros((3, 3))

NoCrystal == [name |-> "", size |-> Zero3, round |-> "", status |-> "none",
              repeats |-> Zero3, cell |-> ZeroCell]

\* RawRepeats with the first quotient upside down (a/lx)
RawRepeats_Inverted(name, size) ==
    LET cr == crystals[name]
    IN  << [p |-> cr.a, q |-> size[1]],
           [p |-> size[2] * Milli, q |-> cr.b * SinMilli(cr.gamma)],
           [p |-> size[3] * Milli * Milli,
            q |-> cr.c * SinMilli(cr.alpha) * SinMilli(cr.beta)] >>

\* the raw repeat factors as fractions p/q with q > 0:
\* lx/a, ly/b/sin(gamma), lz/c/sin(alpha)/sin(beta)
RawRepeats(name, size) ==
    LET cr == crystals[name]
    IN  << [p |-> size[1], q |-> cr.a],
           [p |-> size[2] * Milli, q |-> cr.b * SinMilli(cr.gamma)],
           [p |-> size[3] * Milli * Milli,
            q |-> cr.c * SinMilli(cr.alpha) * SinMilli(cr.beta)] >>

\* RepeatsUp that truncates instead of taking the ceiling
RepeatsUp_Truncating(name, size) ==
    LET r == RawRepeats(name, size)
    IN  [i \in 1..3 |-> FloorDiv(r[i].p, r[i].q)]

RepeatsUp(name, size) ==
    LET r == RawRepeats(name, size)
    IN  [i \in 1..3 |-> CeilDiv(r[i].p, r[i].q)]

RepeatsDown(name, size) ==
    LET r == RawRepeats(name, size)
    IN  [i \in 1..3 |-> FloorDiv(r[i].p, r[i].q)]

\* The outcome of the rounding branch.  The parameter named round shadows
\* the builtin, so the third branch calls a string and raises TypeError.
RoundRepeats(name, size, round) ==
    CASE round = "up"    -> [status |-> "ok", repeats |-> RepeatsUp(name, size)]
      [] round = "down"  -> [status |-> "ok", repeats |-> RepeatsDown(name, size)]
      [] round = "round" -> [status |-> "TypeError", repeats |-> Zero3]
      [] OTHER           -> [status |-> "ValueError", repeats |-> Zero3]

\* The cell of the generated crystal: the unit cell built from the cell
\* parameters (a along x, b in the xy plane), each row times its repeat.
CrystalCell(name, repeats) ==
    LET cr == crystals[name]
        cx == cr.c * CosMilli(cr.beta)
        cy == FloorDiv(cr.c * (CosMilli(cr.alpha) * Milli
                               - CosMilli(cr.beta) * CosMilli(cr.gamma)),
                       SinMilli(cr.gamma))
        cz == ISqrt((cr.c * Milli) * (cr.c * Milli) - cx * cx - cy * cy)
        unit == << <<cr.a * Milli, 0, 0>>,
                   <<cr.b * CosMilli(cr.gamma), cr.b * SinMilli(cr.gamma), 0>>,
                   <<cx, cy, cz>> >>
    IN  [i \in 1..3 |-> [j \in 1..3 |-> repeats[i] * unit[i][j]]]

Some(v) == [some |-> TRUE, val |-> v]

None == [some |-> FALSE, val |-> 0]

\* Prism(cell).get_lammps_prism(): xhi, yhi, zhi, xy, xz, yz.  A zero tilt
\* is reported as None when noneForZero.
Prism(cell, noneForZero) ==
    LET tilt(v) == IF v = 0 /\ noneForZero THEN None ELSE Some(v)
    IN  [xhi |-> cell[1][1], yhi |-> cell[2][2], zhi |-> cell[3][3],
         xy |-> tilt(cell[2][1]), xz |-> tilt(cell[3][1]),
         yz |-> tilt(cell[3][2])]

\* cell[i, j] = v on a 3x3 matrix (indices from 1)
SetEntry(m, i, j, v) == [m EXCEPT ![i][j] = v]

SetIfNotNone(m, i, j, t) == IF t.some THEN SetEntry(m, i, j, t.val) ELSE m

\* LammpsCell with the xy tilt stored at [0, 1] instead of [1, 0]
LammpsCell_Transposed(p) ==
    LET c0 == ZeroCell
        c1 == SetEntry(c0, 1, 1, p.xhi - 0)
        c2 == SetEntry(c1, 2, 2, p.yhi - 0)
        c3 == SetEntry(c2, 3, 3, p.zhi - 0)
        c4 == SetIfNotNone(c3, 1, 2, p.xy)
        c5 == SetIfNotNone(c4, 3, 1, p.xz)
    IN  SetIfNotNone(c5, 3, 2, p.yz)

\* the cell handed to set_cell: zeros, the diagonal, then the tilts
LammpsCell(p) ==
    LET c0 == ZeroCell
        c1 == SetEntry(c0, 1, 1, p.xhi - 0)
        c2 == SetEntry(c1, 2, 2, p.yhi - 0)
        c3 == SetEntry(c2, 3, 3, p.zhi - 0)
        c4 == SetIfNotNone(c3, 2, 1, p.xy)
        c5 == SetIfNotNone(c4, 3, 1, p.xz)
    IN  SetIfNotNone(c5, 3, 2, p.yz)

\* The whole call.  noneForZero and degenerateFails are the behaviour of the
\* external toolkit: how it reports zero tilts, and whether it rejects a
\* crystal with a zero repeat count.
create_bulk_crystal(name, size, round, noneForZero, degenerateFails) ==
    LET call == [NoCrystal EXCEPT !.name = name, !.size = size, !.round = round]
    IN  IF name \notin CrystalNames
        THEN [call EXCEPT !.status = "KeyError"]
        ELSE LET r == RoundRepeats(name, size, round)
             IN  IF r.status # "ok"
                 THEN [call EXCEPT !.status = r.status]
                 ELSE IF degenerateFails /\ \E i \in 1..3 : r.repeats[i] = 0
                 THEN [call EXCEPT !.status = "ExternalError",
                                   !.repeats = r.repeats]
                 ELSE [call EXCEPT
                         !.status = "ok",
                         !.repeats = r.repeats,
                         !.cell = LammpsCell(Prism(CrystalCell(name, r.repeats),
                                                   noneForZero))]

CreateBulkCrystal ==
    /\ \E name \in Names, size \in Sizes, round \in RoundArgs,
          noneForZero \in BOOLEAN, degenerateFails \in BOOLEAN :
           crystal' = create_bulk_crystal(name, size, round,
                                          noneForZero, degenerateFails)
    /\ UNCHANGED <<structs, carves, fs, cwd, pack, cache, fetch>>

----------------------------------------------------------------------------
(* Structures and geometries *)

\* atom positions: below, between and above the bounds of the geometries
Positions == {0, 1, 2}

Atom(p) == [symbol |-> IF p % 2 = 0 THEN "Si" ELSE "O", pos |-> p]

\* the structures a caller may hold: up to MaxAtoms atoms, in any order
Structures ==
    UNION {[1..n -> {Atom(p) : p \in Positions}] : n \in 0..MaxAtoms}

\* a half-space geometry: the region pos < bound
Geometries == {[bound |-> k] : k \in {0, 1, 2}}

\* geometry(atoms): the boolean mask, one entry per atom, TRUE = inside
GeometryMask(geometry, atoms) ==
    [i \in 1..Len(atoms) |-> atoms[i].pos < geometry.bound]

Slots == {1, 2}

----------------------------------------------------------------------------
(* carve_geometry *)

SideArgs == {"in", "out", "both"}

\* np.logical_not
LogicalNot(mask) == [i \in DOMAIN mask |-> ~mask[i]]

\* np.sum of a boolean mask
Sum(mask) == Cardinality({i \in DOMAIN mask : mask[i]})

\* del atoms[mask]: the atoms whose mask entry is FALSE, in order
RECURSIVE DelFrom(_, _, _)
DelFrom(atoms, mask, i) ==
    IF i > Len(atoms) THEN <<>>
    ELSE (IF mask[i] THEN <<>> ELSE <<atoms[i]>>) \o DelFrom(atoms, mask, i + 1)

\* DelItem that keeps the masked atoms and deletes the others
DelItem_Inverted(atoms, mask) == DelFrom(atoms, LogicalNot(mask), 1)

DelItem(atoms, mask) == DelFrom(atoms, mask, 1)

\* DeleteIndices that forgets the negation for side = "out"
DeleteIndices_NoNegation(geometry_indices, side) ==
    CASE side = "in"  -> [ok |-> TRUE, mask |-> geometry_indices]
      [] side = "out" -> [ok |-> TRUE, mask |-> geometry_indices]
      [] OTHER        -> [ok |-> FALSE, mask |-> geometry_indices]

\* the side branch: the mask of the atoms to delete, or no mask (ValueError)
DeleteIndices(geometry_indices, side) ==
    CASE side = "in"  -> [ok |-> TRUE, mask |-> geometry_indices]
      [] side = "out" -> [ok |-> TRUE, mask |-> LogicalNot(geometry_indices)]
      [] OTHER        -> [ok |-> FALSE, mask |-> geometry_indices]

\* carve_geometry that prunes the copy with a mask evaluated again, on the
\* structure after the deletion
carve_geometry_Reevaluated(atoms, geometry, side, return_carved) ==
    LET atoms_copy == atoms
        geometry_indices == GeometryMask(geometry, atoms)
        d == DeleteIndices(geometry_indices, side)
        remainder == DelItem(atoms, d.mask)
        again == GeometryMask(geometry, remainder)
        padded == [i \in 1..Len(atoms_copy) |->
                     IF i <= Len(again) THEN again[i] ELSE FALSE]
    IN  IF ~d.ok
        THEN [atoms |-> atoms, status |-> "ValueError", count |-> 0,
              carved |-> <<>>, evals |-> 1]
        ELSE [atoms |-> remainder,
              status |-> "ok",
              count |-> Sum(d.mask),
              carved |-> IF return_carved
                         THEN DelItem(atoms_copy,
                                      LogicalNot(DeleteIndices(padded, side).mask))
                         ELSE <<>>,
              evals |-> IF return_carved THEN 2 ELSE 1]

\* The whole call on a structure: the structure afterwards, the outcome, the
\* returned count, the returned carved structure (empty when none is
\* returned) and the number of evaluations of the geometry.
carve_geometry(atoms, geometry, side, return_carved) ==
    LET atoms_copy == atoms
        geometry_indices == GeometryMask(geometry, atoms)
        d == DeleteIndices(geometry_indices, side)
    IN  IF ~d.ok
        THEN [atoms |-> atoms, status |-> "ValueError", count |-> 0,
              carved |-> <<>>, evals |-> 1]
        ELSE [atoms |-> DelItem(atoms, d.mask),
              status |-> "ok",
              count |-> Sum(d.mask),
              carved |-> IF return_carved
                         THEN DelItem(atoms_copy, LogicalNot(d.mask))
                         ELSE <<>>,
              evals |-> 1]

NoCarve == [slot |-> 0, pre |-> <<>>, geometry |-> [bound |-> 0], side |-> "",
            return_carved |-> FALSE, status |-> "none", count |-> 0,
            carved |-> <<>>, evals |-> 0]

CarveGeometry ==
    /\ \E slot \in Slots, geometry \in Geometries, side \in SideArgs,
          return_carved \in BOOLEAN :
         LET r == carve_geometry(structs[slot], geometry, side, return_carved)
         IN  /\ structs' = [structs EXCEPT ![slot] = r.atoms]
             /\ carves' = [slot |-> slot, pre |-> structs[slot],
                           geometry |-> geometry, side |-> side,
                           return_carved |-> return_carved,
                           status |-> r.status, count |-> r.count,
                           carved |-> r.carved, evals |-> r.evals]
    /\ UNCHANGED <<crystal, fs, cwd, pack, cache, fetch>>

----------------------------------------------------------------------------
(* pack_water *)

\* directories: where the process starts, the scratch directory made by
\* tempfile.TemporaryDirectory(), and the hard-coded dirr = "/home/evenmn/"
StartDir == "start"
TmpDir == "tmp"
Dirr == "home"

File(dir, name) == [dir |-> dir, name |-> name]

Numbers == 1..MaxNumber

PackmolOutcomes == {"success", "not_installed", "abnormal_exit"}

NoPack == [pc |-> "idle", number |-> 0, atoms |-> FALSE, geometry |-> FALSE,
           return_water |-> FALSE, packmol |-> "", read |-> FALSE,
           created |-> {}, status |-> "none"]

\* leaving the with-block, normally or by an exception: the scratch
\* directory and everything inside it is removed
Cleanup(f) == [dirs |-> f.dirs \ {TmpDir},
               files |-> {x \in f.files : x.dir # TmpDir}]

\* a file written through a relative path lands in the working directory
WriteFile(f, dir, name) == [f EXCEPT !.files = @ \cup {File(dir, name)}]

\* entry: argument check, default geometry, TemporaryDirectory()
PackWater ==
    /\ pack.pc \in {"idle", "done"}
    /\ \E number \in Numbers, atoms \in BOOLEAN, geometry \in BOOLEAN,
          return_water \in BOOLEAN :
         LET call == [NoPack EXCEPT !.number = number, !.atoms = atoms,
                                    !.geometry = geometry,
                                    !.return_water = return_water]
         IN  IF ~atoms /\ ~geometry
             THEN /\ pack' = [call EXCEPT !.pc = "done", !.status = "ValueError"]
                  /\ fs' = fs
             ELSE /\ pack' = [call EXCEPT !.pc = "chdir"]
                  /\ fs' = [fs EXCEPT !.dirs = @ \cup {TmpDir}]
    /\ UNCHANGED <<crystal, structs, carves, cwd, cache, fetch>>

\* os.chdir(dirr)
PackChdir ==
    /\ pack.pc = "chdir"
    /\ IF Dirr \in fs.dirs
       THEN /\ cwd' = Dirr
            /\ pack' = [pack EXCEPT !.pc = "write_atoms"]
            /\ fs' = fs
       ELSE /\ cwd' = cwd
            /\ pack' = [pack EXCEPT !.pc = "done",
                                    !.status = "FileNotFoundError"]
            /\ fs' = Cleanup(fs)
    /\ UNCHANGED <<crystal, structs, carves, cache, fetch>>

\* atoms.write("atoms.pdb") when atoms is given
PackWriteAtoms ==
    /\ pack.pc = "write_atoms"
    /\ IF pack.atoms
       THEN /\ fs' = WriteFile(fs, cwd, "atoms.pdb")
            /\ pack' = [pack EXCEPT !.pc = "copy_water",
                                    !.created = @ \cup {File(cwd, "atoms.pdb")}]
       ELSE /\ fs' = fs
            /\ pack' = [pack EXCEPT !.pc = "copy_water"]
    /\ UNCHANGED <<crystal, structs, carves, cwd, cache, fetch>>

\* copyfile(water_data, "water.pdb")
PackCopyWater ==
    /\ pack.pc = "copy_water"
    /\ fs' = WriteFile(fs, cwd, "water.pdb")
    /\ pack' = [pack EXCEPT !.pc = "write_input",
                            !.created = @ \cup {File(cwd, "water.pdb")}]
    /\ UNCHANGED <<crystal, structs, carves, cwd, cache, fetch>>

\* the packmol input script, open("input.inp", "w")
PackWriteInput ==
    /\ pack.pc = "write_input"
    /\ fs' = WriteFile(fs, cwd, "input.inp")
    /\ pack' = [pack EXCEPT !.pc = "run",
                            !.created = @ \cup {File(cwd, "input.inp")}]
    /\ UNCHANGED <<crystal, structs, carves, cwd, cache, fetch>>

\* os.system("packmol < input.inp"): returns the exit status and never
\* raises, so the except clause is not entered whatever the outcome
PackRunPackmol ==
    /\ pack.pc = "run"
    /\ \E outcome \in PackmolOutcomes :
         IF outcome = "success"
         THEN /\ fs' = WriteFile(fs, cwd, "out.pdb")
              /\ pack' = [pack EXCEPT !.pc = "read", !.packmol = outcome,
                                      !.created = @ \cup {File(cwd, "out.pdb")}]
         ELSE /\ fs' = fs
              /\ pack' = [pack EXCEPT !.pc = "read", !.packmol = outcome]
    /\ UNCHANGED <<crystal, structs, carves, cwd, cache, fetch>>

\* ase.io.read("out.pdb"), then the end of the with-block
PackReadOutput ==
    /\ pack.pc = "read"
    /\ IF File(cwd, "out.pdb") \in fs.files
       THEN pack' = [pack EXCEPT !.pc = "return", !.read = TRUE]
       ELSE pack' = [pack EXCEPT !.pc = "done", !.read = TRUE,
                                 !.status = "FileNotFoundError"]
    /\ fs' = Cleanup(fs)
    /\ UNCHANGED <<crystal, structs, carves, cwd, cache, fetch>>

\* what geometry(None) raises: the class depends on the geometry passed in
\* (AttributeError when it reads atoms.get_positions(), TypeError when it
\* takes len(atoms) or indexes it)
GeometryErrors == {"AttributeError", "TypeError"}

\* the return: with return_water, del water[geometry(atoms)] calls the
\* geometry on the atoms argument.  Without atoms the geometry is called on
\* None and raises; with atoms the mask has one entry per atom of the solid
\* and the deletion on the larger packed structure may fail in the toolkit.
PackReturn ==
    /\ pack.pc = "return"
    /\ \E outcome \in {"ok", "IndexError"} \cup GeometryErrors :
         /\ (outcome \in GeometryErrors) <=> (pack.return_water /\ ~pack.atoms)
         /\ (outcome = "IndexError") => pack.return_water
         /\ pack' = [pack EXCEPT !.pc = "done", !.status = outcome]
    /\ UNCHANGED <<crystal, structs, carves, fs, cwd, cache, fetch>>

----------------------------------------------------------------------------
(* fetch_prepared_system *)

FetchNames == {"silica", "bad/name", "../silica"}

\* werkzeug's secure_filename on the names above: path separators become
\* underscores, leading dots and underscores are stripped
secure_filename(name) ==
    CASE name = "silica"    -> "silica"
      [] name = "bad/name"  -> "bad_name"
      [] name = "../silica" -> "silica"

Url(name) == secure_filename(name)

StatusCodes == {200, 404}

Bodies == {"lammps_data", "other"}

Responses == [code : StatusCodes, length : BOOLEAN, body : Bodies]

NoResponse == [code |-> 0, length |-> FALSE, body |-> ""]

NoFetch == [pc |-> "idle", name |-> "", url |-> "", remote |-> "",
            response |-> NoResponse, parsed |-> FALSE, status |-> "none"]

\* entry: install_cache, TemporaryFile, the url
FetchPreparedSystem ==
    /\ fetch.pc \in {"idle", "done"}
    /\ \E name \in FetchNames :
         fetch' = [NoFetch EXCEPT !.pc = "get", !.name = name,
                                  !.url = Url(name)]
    /\ UNCHANGED <<crystal, structs, carves, fs, cwd, pack, cache>>

\* requests.get(url, stream=True) with the cache installed.  A response
\* stored for the url may be served without the network; the request may
\* also go to the transport (nothing stored, or the stored response is not
\* used), where the remote is unreachable or answers.  An answer with code
\* 200 is stored in place of what was stored for the url.
FetchGet ==
    /\ fetch.pc = "get"
    /\ \/ \E e \in cache :
            /\ e.url = fetch.url
            /\ fetch' = [fetch EXCEPT !.pc = "length", !.remote = "cached",
                                      !.response = e.response]
            /\ cache' = cache
       \/ /\ fetch' = [fetch EXCEPT !.pc = "done",
                                    !.remote = "unreachable",
                                    !.status = "ConnectionError"]
          /\ cache' = cache
       \/ \E r \in Responses :
            /\ fetch' = [fetch EXCEPT !.pc = "length",
                                      !.remote = "answered",
                                      !.response = r]
            /\ cache' = IF r.code = 200
                        THEN {e \in cache : e.url # fetch.url}
                               \cup {[url |-> fetch.url, response |-> r]}
                        ELSE cache
    /\ UNCHANGED <<crystal, structs, carves, fs, cwd, pack>>

\* int(r.headers.get('content-length')): no status check comes before it
FetchLength ==
    /\ fetch.pc = "length"
    /\ IF fetch.response.length
       THEN fetch' = [fetch EXCEPT !.pc = "download"]
       ELSE fetch' = [fetch EXCEPT !.pc = "done", !.status = "TypeError"]
    /\ UNCHANGED <<crystal, structs, carves, fs, cwd, pack, cache>>

\* the chunks of the body are written to the temporary file
FetchDownload ==
    /\ fetch.pc = "download"
    /\ fetch' = [fetch EXCEPT !.pc = "parse"]
    /\ UNCHANGED <<crystal, structs, carves, fs, cwd, pack, cache>>

\* ase.io.read(f, format="lammps-data")
FetchParse ==
    /\ fetch.pc = "parse"
    /\ IF fetch.response.body = "lammps_data"
       THEN fetch' = [fetch EXCEPT !.pc = "done", !.parsed = TRUE,
                                   !.status = "ok"]
       ELSE fetch' = [fetch EXCEPT !.pc = "done", !.parsed = TRUE,
                                   !.status = "ParseError"]
    /\ UNCHANGED <<crystal, structs, carves, fs, cwd, pack, cache>>

----------------------------------------------------------------------------
(* Specifications *)

\* whether "/home/evenmn/" exists depends on the machine
InitFs == {[dirs |-> d, files |-> {}] : d \in {{StartDir}, {StartDir, Dirr}}}

InitCommon ==
    /\ crystal = NoCrystal
    /\ carves = NoCarve
    /\ cwd = StartDir
    /\ pack = NoPack
    /\ cache = {}
    /\ fetch = NoFetch

\* the builder
InitBuild ==
    /\ InitCommon
    /\ structs = [k \in Slots |-> <<>>]
    /\ fs = [dirs |-> {StartDir}, files |-> {}]

SpecBuild == InitBuild /\ [][CreateBulkCrystal]_vars

\* the carver: a structure and a copy of it
InitCarve ==
    /\ InitCommon
    /\ \E s \in Structures : structs = [k \in Slots |-> s]
    /\ fs = [dirs |-> {StartDir}, files |-> {}]

SpecCarve == InitCarve /\ [][CarveGeometry]_vars

\* the packer
InitPack ==
    /\ InitCommon
    /\ structs = [k \in Slots |-> <<>>]
    /\ fs \in InitFs

NextPack ==
    \/ PackWater
    \/ PackChdir
    \/ PackWriteAtoms
    \/ PackCopyWater
    \/ PackWriteInput
    \/ PackRunPackmol
    \/ PackReadOutput
    \/ PackReturn

SpecPack == InitPack /\ [][NextPack]_vars

\* the fetcher
NextFetch ==
    \/ FetchPreparedSystem
    \/ FetchGet
    \/ FetchLength
    \/ FetchDownload
    \/ FetchParse

SpecFetch == InitBuild /\ [][NextFetch]_vars

\* the whole module
Init ==
    /\ InitCommon
    /\ \E s \in Structures : structs = [k \in Slots |-> s]
    /\ fs \in InitFs

Next ==
    \/ CreateBulkCrystal
    \/ CarveGeometry
    \/ NextPack
    \/ NextFetch

Spec == Init /\ [][Next]_vars

----------------------------------------------------------------------------
(* Properties of carve_geometry, checked under SpecCarve *)

\* whether the geometry of the last call puts atom a on the deleted side
OnDeletedSide(a) ==
    IF carves.side = "in" THEN a.pos < carves.geometry.bound
                          ELSE ~(a.pos < carves.geometry.bound)

NotOnDeletedSide(a) == ~OnDeletedSide(a)

\* C1: a carve with side "in" and a carve with side "out" of equal
\* structures with the same geometry return counts that add up to the
\* number of atoms before carving.
C1_Partition ==
    [][ ( /\ carves.status = "ok" /\ carves'.status = "ok"
          /\ carves'.pre = carves.pre
          /\ carves'.geometry = carves.geometry
          /\ {carves.side, carves'.side} = {"in", "out"} )
        => carves.count + carves'.count = Len(carves.pre) ]_vars

\* the second copy was just carved "out" after the first was carved "in"
\* with the same geometry, and both calls removed atoms
C1_Witness ==
    /\ carves.status = "ok" /\ carves.side = "out" /\ carves.slot = 2
    /\ carves.count > 0
    /\ carves.count < Len(carves.pre)
    /\ structs[1] = SelectSeq(carves.pre, OnDeletedSide)
    /\ structs[2] = SelectSeq(carves.pre, NotOnDeletedSide)

\* C2: after a carve the structure holds exactly the atoms that were not
\* on the deleted side, in their original order and unchanged, and the
\* returned count is the number of atoms removed.
C2_Remainder ==
    carves.status = "ok" =>
        /\ structs[carves.slot] = SelectSeq(carves.pre, NotOnDeletedSide)
        /\ carves.count =
             Cardinality({i \in 1..Len(carves.pre) : OnDeletedSide(carves.pre[i])})
        /\ Len(structs[carves.slot]) = Len(carves.pre) - carves.count

\* a carve removed an atom from between two different atoms that stay
C2_Witness ==
    /\ carves.status = "ok"
    /\ carves.count >= 1
    /\ Len(structs[carves.slot]) >= 2
    /\ structs[carves.slot][1] # structs[carves.slot][2]
    /\ OnDeletedSide(carves.pre[2])

\* C3: with return_carved the carved structure holds exactly the removed
\* atoms, it shares no atom with the remainder, the two sizes add up to the
\* size before carving, and the geometry is evaluated once.
C3_Carved ==
    (carves.status = "ok" /\ carves.return_carved) =>
        /\ carves.carved = SelectSeq(carves.pre, OnDeletedSide)
        /\ \A i \in 1..Len(carves.carved), j \in 1..Len(structs[carves.slot]) :
              carves.carved[i] # structs[carves.slot][j]
        /\ Len(carves.carved) + Len(structs[carves.slot]) = Len(carves.pre)
        /\ carves.count = Len(carves.carved)
        /\ carves.evals = 1

\* a carve with return_carved split a structure into two non-empty parts
C3_Witness ==
    /\ carves.status = "ok" /\ carves.return_carved
    /\ Len(carves.carved) >= 1
    /\ Len(structs[carves.slot]) >= 1
    /\ Len(carves.pre) = MaxAtoms

----------------------------------------------------------------------------
(* Properties of create_bulk_crystal, checked under SpecBuild *)

\* the call got as far as computing the repeat counts
Computed(c) == c.status \in {"ok", "ExternalError"}

\* nearest integer to p/q, ties to the even one
RoundNearest(p, q) ==
    LET f == FloorDiv(p, q)
        r == p - f * q
    IN  IF 2 * r < q THEN f
        ELSE IF 2 * r > q THEN f + 1
        ELSE IF f % 2 = 0 THEN f ELSE f + 1

ExpectedRepeats(name, size, round) ==
    LET r == RawRepeats(name, size)
    IN  [i \in 1..3 |->
           CASE round = "up"    -> CeilDiv(r[i].p, r[i].q)
             [] round = "down"  -> FloorDiv(r[i].p, r[i].q)
             [] round = "round" -> RoundNearest(r[i].p, r[i].q)]

\* C4: with a valid crystal name, each of the modes "up", "down" and "round"
\* gets through the rounding with the ceiling, floor and nearest integer of
\* the raw repeat factors, and any other mode fails with ValueError.
C4_RoundingModes ==
    crystal.name \in CrystalNames =>
        IF crystal.round \in RoundModes
        THEN /\ Computed(crystal)
             /\ crystal.repeats =
                  ExpectedRepeats(crystal.name, crystal.size, crystal.round)
        ELSE crystal.status = "ValueError"

\* C5: the cell of a returned structure has zeros above the diagonal.
C5_LowerTriangular ==
    crystal.status = "ok" =>
        /\ crystal.cell[1][2] = 0
        /\ crystal.cell[1][3] = 0
        /\ crystal.cell[2][3] = 0

\* a returned structure whose cell is tilted in every lower entry or in xy
C5_Witness ==
    /\ crystal.status = "ok"
    /\ crystal.cell[2][1] # 0
    /\ crystal.cell[1][1] > 0 /\ crystal.cell[2][2] > 0 /\ crystal.cell[3][3] > 0

\* C6: with rounding "up" every repeat count is at least 1 and the repeat
\* count times the extent of the unit cell on its axis (a, b sin(gamma),
\* c sin(alpha) sin(beta)) is at least the requested length.
C6_Covers ==
    (Computed(crystal) /\ crystal.round = "up") =>
        LET cr == crystals[crystal.name]
            n == crystal.repeats
            l == crystal.size
        IN  /\ \A i \in 1..3 : n[i] >= 1
            /\ n[1] * cr.a >= l[1]
            /\ n[2] * cr.b * SinMilli(cr.gamma) >= l[2] * Milli
            /\ n[3] * cr.c * SinMilli(cr.alpha) * SinMilli(cr.beta)
                 >= l[3] * Milli * Milli

\* a build rounded up that needed several cells on a sheared axis and
\* whose requested length is not a whole number of cells
C6_Witness ==
    /\ crystal.status = "ok" /\ crystal.round = "up"
    /\ crystal.name = "kaolinite"
    /\ crystal.repeats[3] >= 2
    /\ crystal.repeats[2] = 1
    /\ crystal.repeats[2] * crystals[crystal.name].b > crystal.size[2]

\* C7: of two builds of the same crystal with the same rounding mode, the
\* one whose requested size is at least as large on every axis gets repeat
\* counts at least as large on every axis.
C7_Monotone ==
    [][ ( /\ Computed(crystal) /\ Computed(crystal')
          /\ crystal'.name = crystal.name
          /\ crystal'.round = crystal.round
          /\ \A i \in 1..3 : crystal'.size[i] >= crystal.size[i] )
        => \A i \in 1..3 : crystal'.repeats[i] >= crystal.repeats[i] ]_vars

\* a build rounded down of a size above the smallest one, with more repeats
\* on an axis than the smallest size gets
C7_Witness ==
    /\ Computed(crystal) /\ crystal.round = "down"
    /\ \E i \in 1..3 :
         /\ crystal.size[i] > LenStep
         /\ crystal.repeats[i] >= 2
    /\ \E i \in 1..3 : crystal.size[i] = LenStep

----------------------------------------------------------------------------
(* Properties of pack_water, checked under SpecPack *)

\* C8: when packmol is not installed or exits abnormally, the call fails
\* with the OSError that names packmol and does not read the output file.
C8_PackmolFailure ==
    pack.packmol \in {"not_installed", "abnormal_exit"} =>
        /\ ~pack.read
        /\ pack.pc = "done" => pack.status = "OSError"

\* C9: every file the call creates lies in its scratch directory, and once
\* the call is over none of them and no scratch directory remains.
C9_ScratchScoped ==
    /\ \A f \in pack.created : f.dir = TmpDir
    /\ pack.pc = "done" =>
         /\ pack.created \cap fs.files = {}
         /\ TmpDir \notin fs.dirs

----------------------------------------------------------------------------
(* Properties of fetch_prepared_system, checked under SpecFetch *)

\* C10: when the remote is unreachable or answers with a code other than
\* 200, the call fails with a network error and the body is never parsed.
C10_NetworkFailure ==
    (\/ fetch.remote = "unreachable"
     \/ fetch.remote = "answered" /\ fetch.response.code # 200) =>
        /\ ~fetch.parsed
        /\ fetch.pc = "done" => fetch.status \in {"ConnectionError", "HTTPError"}

====
